---- MODULE Spec2Model ----
(***************************************************************************)
(* Chunked upload of the contribution modal (UploadModal): onSubmit and    *)
(* uploadFileInChunks of the upload modal, with the modal's React state    *)
(* (selectedType, uploadProgress, isUploading), the dialog's open flag and *)
(* the remote chunk / finalize endpoints as the environment.               *)
(*                                                                         *)
(* JavaScript runs one task at a time, so everything between two awaits is *)
(* one atomic step: an action below is one handler run or one continuation *)
(* of the async function, from the event that resumes it to the next await.*)
(***************************************************************************)
EXTENDS Integers, Sequences, FiniteSets, TLC

VARIABLES
    selectedType,    \* useState<UploadType | null>
    uploadProgress,  \* useState(0)
    isUploading,     \* useState(false)
    open,            \* prop open (the dashboard's showUploadModal)
    userId,          \* prop userId
    ups,             \* one record per onSubmit invocation: its locals and position
    uuidCounter,     \* number of window.crypto.randomUUID() calls so far
    resetTimer,      \* invocations whose setTimeout(..., 1200) is pending
    reqs,            \* history: the fetch requests sent, with their outcome
    progressLog,     \* history: the setUploadProgress / onProgress calls
    waits,           \* history: the backoff setTimeout waits
    notifications    \* history: the showNotification calls

vars == <<selectedType, uploadProgress, isUploading, open, userId, ups,
          uuidCounter, resetTimer, reqs, progressLog, waits, notifications>>

(***************************************************************************)
(* Bounds and program constants                                            *)
(***************************************************************************)
\* Number of onSubmit invocations followed.
MaxUploads == 2

MiB == 1048576

CHUNK_SIZE == 5 * MiB

MaxAttemptsOffByOne == 3 + 1

\* for (let attempt = 1; attempt <= 3; attempt++)
MaxAttempts == 3

BackoffUnit == 500

InitialProgress == 5

FinalProgress == 100

NoType == "null"

UploadTypes == {"text", "audio", "video", "image"}

NoFile == [name |-> <<>>, size |-> -1]

\* The sizes of the files the user may select (bytes).
FileSizes == {0, 1, CHUNK_SIZE, CHUNK_SIZE + 1, 12 * MiB}

MediaFileName == <<"c", "l", "i", "p">>

Files == {[name |-> MediaFileName, size |-> k] : k \in FileSizes}

\* Strings the code inspects are sequences of characters.
Titles == {<<>>, <<"G", "r", "e", "e", "t", "i", "n", "g">>, <<"a", " ", " ", "b">>}

Contents == {<<>>, <<" ", " ">>, <<"h", "e", "l", "l", "o">>, <<"h", "U+00E9">>}

FormData == [title : Titles, content : Contents, file : Files \cup {NoFile}]

UserIds == {"", "u1"}

\* What a chunk request can come back with: resp.ok, !resp.ok, fetch throws.
ChunkOutcomes == {"ok", "notok", "threw"}

ChunkErrorBody == <<"Internal Server Error">>

FetchError == <<"TypeError: Failed to fetch">>

FetchErrorMessage == <<"Failed to fetch">>

NoError == <<"null">>

\* The bodies of a non-success finalize response.
FinalizeBodies ==
    { [raw |-> <<"{\"detail\":\"Invalid category\"}">>, json |-> TRUE, detail |-> <<"Invalid category">>],
      [raw |-> <<"{\"error\":1}">>, json |-> TRUE, detail |-> <<>>],
      [raw |-> <<"Bad Gateway">>, json |-> FALSE, detail |-> <<>>],
      [raw |-> <<>>, json |-> FALSE, detail |-> <<>>] }

(***************************************************************************)
(* Pure helpers                                                            *)
(***************************************************************************)
Min(a, b) == IF a <= b THEN a ELSE b

IsWhitespace(c) == c \in {" ", "\t", "\n"}

\* String.prototype.trim() === ''
RECURSIVE TrimIsEmpty(_)
TrimIsEmpty(s) == IF s = <<>> THEN TRUE ELSE IsWhitespace(Head(s)) /\ TrimIsEmpty(Tail(s))

\* title.replace(/\s+/g, '-'): every maximal run of whitespace becomes one '-'
RECURSIVE ReplaceWhitespace(_)
ReplaceWhitespace(s) ==
    IF s = <<>> THEN <<>>
    ELSE IF IsWhitespace(Head(s))
         THEN IF Len(s) > 1 /\ IsWhitespace(s[2])
              THEN ReplaceWhitespace(Tail(s))
              ELSE <<"-">> \o ReplaceWhitespace(Tail(s))
         ELSE <<Head(s)>> \o ReplaceWhitespace(Tail(s))

TextFileNameNoFallback(title) == ReplaceWhitespace(title) \o <<".", "t", "x", "t">>

\* `${data.title.replace(/\s+/g, '-') || 'text-content'}.txt`
TextFileName(title) ==
    (IF ReplaceWhitespace(title) = <<>>
     THEN <<"t", "e", "x", "t", "-", "c", "o", "n", "t", "e", "n", "t">>
     ELSE ReplaceWhitespace(title)) \o <<".", "t", "x", "t">>

\* Bytes of one character in the UTF-8 encoding new File([string]) uses.
Utf8Len(c) == IF c = "U+00E9" THEN 2 ELSE 1

RECURSIVE ByteLength(_)
ByteLength(s) == IF s = <<>> THEN 0 ELSE Utf8Len(Head(s)) + ByteLength(Tail(s))

\* new File([data.content], name, { type: 'text/plain' })
TextFile(data) == [name |-> TextFileName(data.title), size |-> ByteLength(data.content)]

TotalChunksFloorPlusOne(size) == (size \div CHUNK_SIZE) + 1

\* Math.ceil(file.size / CHUNK_SIZE)
TotalChunks(size) == (size + CHUNK_SIZE - 1) \div CHUNK_SIZE

\* const start = i * CHUNK_SIZE
ChunkStart(i) == i * CHUNK_SIZE

ChunkEndUnclamped(size, i) == ChunkStart(i) + CHUNK_SIZE

\* const end = Math.min(file.size, start + CHUNK_SIZE)
ChunkEnd(size, i) == Min(size, ChunkStart(i) + CHUNK_SIZE)

BackoffConstant(attempt) == BackoffUnit

\* setTimeout(res, 500 * attempt)
BackoffMs(attempt) == BackoffUnit * attempt

\* Math.round(((i + 1) / totalChunks) * 100): Math.round rounds halves up
ProgressPercentFloor(i, totalChunks) == (100 * (i + 1)) \div totalChunks

ProgressPercent(i, totalChunks) == (200 * (i + 1) + totalChunks) \div (2 * totalChunks)

(***************************************************************************)
(* State of one onSubmit invocation                                        *)
(***************************************************************************)
\* Positions: the await the invocation is suspended at, or how it ended.
Suspended == {"await_chunk", "backoff", "await_finalize"}

Ended == {"rejected", "failed", "completed"}

\* The locals of onSubmit and uploadFileInChunks before they are assigned.
NoText == [title |-> <<>>, content |-> <<>>]

\* (text: the title and content of data that a text submission turns into its file)
BlankUpload ==
    [pc |-> "rejected", mediaType |-> NoType, text |-> NoText, file |-> NoFile,
     fileName |-> <<>>, totalChunks |-> 0, uploadUuid |-> 0, i |-> 0, attempt |-> 0,
     success |-> FALSE, lastError |-> NoError]

Live(u) == u \in 1..Len(ups) /\ ups[u].pc \in Suspended

\* An invocation that returned keeps no locals: only how it ended and the
\* identifier it used are remembered.
Returned(p) == [BlankUpload EXCEPT !.pc = p.pc, !.uploadUuid = p.uploadUuid]

\* The histories keep the current invocations and the ones that ended since the
\* last submission; onSubmit starts a new observation window.
Forget(log) == SelectSeq(log, LAMBDA e : Live(e.u))

ForgetEnded == [u \in 1..Len(ups) |-> IF Live(u) THEN ups[u] ELSE Returned(ups[u])]

ChunkUuidPerChunk(p) == p.uploadUuid + p.i

\* chunkForm.append('upload_uuid', uploadUuid): the const of uploadFileInChunks
ChunkUuid(p) == p.uploadUuid

ChunkRequest(u, p) ==
    [u |-> u, kind |-> "chunk", filename |-> p.file.name, chunk_index |-> p.i,
     total_chunks |-> p.totalChunks, upload_uuid |-> ChunkUuid(p),
     start |-> ChunkStart(p.i), end |-> ChunkEnd(p.file.size, p.i),
     attempt |-> p.attempt, result |-> "pending"]

FinalizeTotalChunksIndex(p) == p.i + 1

\* finalizeData.append('total_chunks', totalChunks.toString())
FinalizeTotalChunks(p) == p.totalChunks

FinalizeRequest(u, p) ==
    [u |-> u, kind |-> "finalize", filename |-> p.fileName, chunk_index |-> -1,
     total_chunks |-> FinalizeTotalChunks(p), upload_uuid |-> p.uploadUuid,
     start |-> 0, end |-> 0, attempt |-> 1, result |-> "pending"]

\* The request of invocation u that has not come back yet.
Pending(u) == {k \in 1..Len(reqs) : reqs[k].u = u /\ reqs[k].result = "pending"}

Settle(u, result) ==
    [k \in 1..Len(reqs) |-> IF k \in Pending(u) THEN [reqs[k] EXCEPT !.result = result]
                            ELSE reqs[k]]

NextIndexSkips(i) == i + 2

\* i++
NextIndex(i) == i + 1

\* The top of the chunk loop (for (let i = 0; i < totalChunks; i++)) with the
\* loop variable at p.i: either the first attempt of chunk i is sent, or the loop
\* is over, uploadFileInChunks returns and onSubmit sends the finalize request.
LoopTop(u, p) ==
    IF p.i < p.totalChunks
    THEN LET q == [p EXCEPT !.pc = "await_chunk", !.attempt = 1,
                            !.success = FALSE, !.lastError = NoError]
         IN  [up |-> q, req |-> ChunkRequest(u, q)]
    ELSE LET q == [p EXCEPT !.pc = "await_finalize"]
         IN  [up |-> q, req |-> FinalizeRequest(u, q)]

FreshUuidReused(n) == 1

\* window.crypto.randomUUID(): a value no earlier call returned
FreshUuid(n) == n + 1

(***************************************************************************)
(* The server: registerRoutes over MemStorage                              *)
(***************************************************************************)
VARIABLES
    contributions,   \* MemStorage.contributions: the Map's values in insertion order
    now,             \* Date.now() of the server, in hours
    response         \* the response a route handler has produced, until it is sent

serverVars == <<contributions, now, response>>

\* Contributions created on top of the demo data
MaxContributions == 2

\* The constructor's clock; the oldest demo contribution is 24 hours old.
Now0 == 24

MaxNow == Now0 + MaxContributions

Users == {"demo-user-id", "user-2"}

\* :userId of a request
UserIdParams == Users \cup {"nobody"}

\* The Authorization header: none, a token jwt.verify rejects (forged, expired),
\* a token signed for a user at login.
NoToken == [kind |-> "none", userId |-> ""]

Tokens == {NoToken} \cup [kind : {"invalid", "valid"}, userId : Users]

\* contrib-1, contrib-2, contrib-3 of the constructor
demoContributions ==
    << [id |-> 1, userId |-> "demo-user-id", createdAt |-> Now0 - 2],
       [id |-> 2, userId |-> "demo-user-id", createdAt |-> Now0 - 5],
       [id |-> 3, userId |-> "demo-user-id", createdAt |-> Now0 - 24] >>

NoResponse == [route |-> "none", token |-> NoToken, userId |-> "", status |-> 0, body |-> <<>>]

\* res.status(status).json(..): body holds the contributions sent, if any
Reply(route, token, paramUserId, status, body) ==
    [route |-> route, token |-> token, userId |-> paramUserId, status |-> status, body |-> body]

\* authenticateToken: the status it answers with, or 0 and req.user when it calls next()
authenticateToken(token) ==
    IF token.kind = "none" THEN [status |-> 401, user |-> ""]
    ELSE IF token.kind # "valid" THEN [status |-> 403, user |-> ""]
    ELSE [status |-> 0, user |-> token.userId]

\* Array.prototype.sort((a, b) => b.createdAt - a.createdAt): stable, newest first
RECURSIVE InsertNewestFirst(_, _)
InsertNewestFirst(c, sorted) ==
    IF sorted = <<>> THEN <<c>>
    ELSE IF Head(sorted).createdAt >= c.createdAt
         THEN <<Head(sorted)>> \o InsertNewestFirst(c, Tail(sorted))
         ELSE <<c>> \o sorted

RECURSIVE SortNewestFirst(_)
SortNewestFirst(list) ==
    IF list = <<>> THEN <<>>
    ELSE InsertNewestFirst(list[Len(list)], SortNewestFirst(SubSeq(list, 1, Len(list) - 1)))

\* MemStorage.getUserContributions
getUserContributions(paramUserId) ==
    SortNewestFirst(SelectSeq(contributions, LAMBDA c : c.userId = paramUserId))

AccessDeniedNever(user, paramUserId) == FALSE

\* if (req.user.userId !== userId)
AccessDenied(user, paramUserId) == user # paramUserId

\* MemStorage's constructor
InitStorage ==
    /\ contributions = demoContributions
    /\ now = Now0
    /\ response = NoResponse

(***************************************************************************)
(* Initial state: the modal as constructed, closed, nothing submitted      *)
(***************************************************************************)
Init ==
    /\ selectedType = NoType
    /\ uploadProgress = 0
    /\ isUploading = FALSE
    /\ open = FALSE
    /\ userId \in UserIds
    /\ ups = <<>>
    /\ uuidCounter = 0
    /\ resetTimer = {}
    /\ reqs = <<>>
    /\ progressLog = <<>>
    /\ waits = <<>>
    /\ notifications = <<>>
    /\ InitStorage

(***************************************************************************)
(* The user and the dashboard                                              *)
(***************************************************************************)
\* setShowUploadModal(true)
OpenDialog ==
    /\ ~open
    /\ open' = TRUE
    /\ UNCHANGED <<selectedType, uploadProgress, isUploading, userId, ups, uuidCounter,
                   resetTimer, reqs, progressLog, waits, notifications>>
    /\ UNCHANGED serverVars

\* The Dialog's own close (Escape, overlay, X): onOpenChange(false)
CloseDialog ==
    /\ open
    /\ open' = FALSE
    /\ UNCHANGED <<selectedType, uploadProgress, isUploading, userId, ups, uuidCounter,
                   resetTimer, reqs, progressLog, waits, notifications>>
    /\ UNCHANGED serverVars

\* A type button of the selection screen: setSelectedType(type.key)
SelectType(t) ==
    /\ open
    /\ selectedType = NoType
    /\ selectedType' = t
    /\ UNCHANGED <<uploadProgress, isUploading, open, userId, ups, uuidCounter,
                   resetTimer, reqs, progressLog, waits, notifications>>
    /\ UNCHANGED serverVars

\* The back arrow of the form screen: setSelectedType(null)
Back ==
    /\ open
    /\ selectedType # NoType
    /\ selectedType' = NoType
    /\ UNCHANGED <<uploadProgress, isUploading, open, userId, ups, uuidCounter,
                   resetTimer, reqs, progressLog, waits, notifications>>
    /\ UNCHANGED serverVars

\* resetModal, run for invocation u (0: the Cancel button)
resetModal(u) ==
    /\ selectedType' = NoType
    /\ uploadProgress' = 0
    /\ isUploading' = FALSE
    /\ open' = FALSE
    /\ progressLog' = IF u = 0 THEN progressLog  \* the history follows invocations only
                      ELSE Append(progressLog, [u |-> u, src |-> "reset", value |-> 0])

CancelNeverDisabled == FALSE

\* disabled={isUploading} of the Cancel button
CancelDisabled == isUploading

\* The Cancel button: onClick={resetModal}
Cancel ==
    /\ open
    /\ selectedType # NoType
    /\ ~CancelDisabled
    /\ resetModal(0)
    /\ UNCHANGED <<userId, ups, uuidCounter, resetTimer, reqs, waits, notifications>>
    /\ UNCHANGED serverVars

(***************************************************************************)
(* onSubmit and uploadFileInChunks                                         *)
(***************************************************************************)
Notification(u, type, message) == [u |-> u, type |-> type, message |-> message]

\* err.message || 'An unexpected error occurred'
ErrorShown(message) ==
    IF message = <<>> THEN <<"An unexpected error occurred">> ELSE message

CatchKeepsUploading(u, message, upsNow, progressNow, notificationsNow) ==
    /\ ups' = [upsNow EXCEPT ![u].pc = "failed"]
    /\ notifications' = Append(notificationsNow, Notification(u, "error", ErrorShown(message)))
    /\ isUploading' = TRUE
    /\ uploadProgress' = 0
    /\ progressLog' = Append(progressNow, [u |-> u, src |-> "error", value |-> 0])

CatchSilent(u, message, upsNow, progressNow, notificationsNow) ==
    /\ ups' = [upsNow EXCEPT ![u].pc = "failed"]
    /\ notifications' = notificationsNow
    /\ isUploading' = FALSE
    /\ uploadProgress' = 0
    /\ progressLog' = Append(progressNow, [u |-> u, src |-> "error", value |-> 0])

\* The catch block of onSubmit, reached by invocation u with err.message = message.
Catch(u, message, upsNow, progressNow, notificationsNow) ==
    /\ ups' = [upsNow EXCEPT ![u].pc = "failed"]
    /\ notifications' = Append(notificationsNow, Notification(u, "error", ErrorShown(message)))
    /\ isUploading' = FALSE
    /\ uploadProgress' = 0
    /\ progressLog' = Append(progressNow, [u |-> u, src |-> "error", value |-> 0])

InvalidInputNoTrim(type, data) ==
    IF type = "text"
    THEN IF data.content = <<>> THEN <<"No text content provided.">> ELSE <<>>
    ELSE IF data.file = NoFile THEN <<"No file selected.">> ELSE <<>>

\* The validation at the top of the try block: the message thrown, <<>> if none.
InvalidInput(type, data) ==
    IF type = "text"
    THEN IF data.content = <<>> \/ TrimIsEmpty(data.content)
         THEN <<"No text content provided.">> ELSE <<>>
    ELSE IF data.file = NoFile THEN <<"No file selected.">> ELSE <<>>

UserMissingIgnored == FALSE

\* if (!userId)
UserMissing == userId = ""

SubmitNeverDisabled == FALSE

\* disabled={isUploading} of the submit button
SubmitDisabled == isUploading

\* form.handleSubmit(onSubmit) through the submit button, up to the first await.
onSubmit(data) ==
    /\ open
    /\ selectedType # NoType
    /\ ~SubmitDisabled
    /\ Len(ups) < MaxUploads
    /\ LET u == Len(ups) + 1
           started == Append(Forget(progressLog),
                             [u |-> u, src |-> "start", value |-> InitialProgress])
           fileToUpload == IF selectedType = "text" THEN TextFile(data) ELSE data.file
           text == IF selectedType = "text"
                   THEN [title |-> data.title, content |-> data.content] ELSE NoText
           p == [BlankUpload EXCEPT !.mediaType = selectedType,
                                    !.text = text,
                                    !.file = fileToUpload,
                                    !.fileName = fileToUpload.name,
                                    !.totalChunks = TotalChunks(fileToUpload.size),
                                    !.uploadUuid = FreshUuid(uuidCounter),
                                    !.i = 0]
           go == LoopTop(u, p)
       IN  IF UserMissing
           THEN /\ ups' = Append(ForgetEnded, BlankUpload)
                /\ notifications' = Append(Forget(notifications),
                       Notification(u, "error", <<"User not identified. Cannot start upload.">>))
                /\ reqs' = Forget(reqs)
                /\ waits' = Forget(waits)
                /\ progressLog' = Forget(progressLog)
                /\ UNCHANGED <<isUploading, uploadProgress, uuidCounter>>
           ELSE IF InvalidInput(selectedType, data) # <<>>
           THEN /\ Catch(u, InvalidInput(selectedType, data),
                         Append(ForgetEnded, [BlankUpload EXCEPT !.mediaType = selectedType,
                                                                 !.text = text]),
                         started, Forget(notifications))
                /\ reqs' = Forget(reqs)
                /\ waits' = Forget(waits)
                /\ UNCHANGED uuidCounter
           ELSE /\ ups' = Append(ForgetEnded, go.up)
                /\ isUploading' = TRUE
                /\ uploadProgress' = InitialProgress
                /\ progressLog' = started
                /\ uuidCounter' = uuidCounter + 1
                /\ reqs' = Append(Forget(reqs), go.req)
                /\ waits' = Forget(waits)
                /\ notifications' = Forget(notifications)
    /\ UNCHANGED <<selectedType, open, userId, resetTimer>>
    /\ UNCHANGED serverVars

\* The chunk request of invocation u comes back: resp.ok, !resp.ok or fetch throws.
ChunkResponse(u, outcome) ==
    /\ Live(u)
    /\ ups[u].pc = "await_chunk"
    /\ LET p == ups[u]
           pct == ProgressPercent(p.i, p.totalChunks)
           go == LoopTop(u, [p EXCEPT !.success = TRUE, !.i = NextIndex(p.i)])
       IN  IF outcome = "ok"
           THEN /\ ups' = [ups EXCEPT ![u] = go.up]
                /\ reqs' = Append(Settle(u, "ok"), go.req)
                /\ uploadProgress' = pct
                /\ progressLog' = Append(progressLog, [u |-> u, src |-> "chunk", value |-> pct])
                /\ UNCHANGED waits
           ELSE /\ ups' = [ups EXCEPT ![u] =
                              [p EXCEPT !.pc = "backoff",
                                        !.lastError = IF outcome = "notok" THEN ChunkErrorBody
                                                      ELSE FetchError]]
                /\ reqs' = Settle(u, "failed")
                /\ waits' = Append(waits, [u |-> u, chunk_index |-> p.i,
                                           attempt |-> p.attempt, ms |-> BackoffMs(p.attempt)])
                /\ UNCHANGED <<uploadProgress, progressLog>>
    /\ UNCHANGED <<selectedType, isUploading, open, userId, uuidCounter, resetTimer,
                   notifications>>
    /\ UNCHANGED serverVars

RetryDueNoAwait(p) == p.pc \in {"backoff", "await_chunk"}

\* The loop resumes only from await new Promise(res => setTimeout(res, ...)).
RetryDue(p) == p.pc = "backoff"

ChunkGivenUpIgnored(p) == FALSE

\* if (!success)
ChunkGivenUp(p) == ~p.success

\* The backoff timer of invocation u fires: attempt++, and either the next attempt
\* is sent or the attempts are used up and the chunk loop is left.
BackoffElapsed(u) ==
    /\ Live(u)
    /\ RetryDue(ups[u])
    /\ LET p == ups[u]
           q == [p EXCEPT !.pc = "await_chunk", !.attempt = p.attempt + 1]
           pct == ProgressPercent(p.i, p.totalChunks)
           go == LoopTop(u, [p EXCEPT !.i = NextIndex(p.i)])
       IN  IF q.attempt <= MaxAttempts
           THEN /\ ups' = [ups EXCEPT ![u] = q]
                /\ reqs' = Append(reqs, ChunkRequest(u, q))
                /\ UNCHANGED <<isUploading, uploadProgress, progressLog, notifications>>
           ELSE IF ChunkGivenUp(p)
           THEN /\ Catch(u, <<"Chunk upload failed: ">> \o p.lastError,
                         ups, progressLog, notifications)
                /\ UNCHANGED reqs
           ELSE /\ ups' = [ups EXCEPT ![u] = go.up]
                /\ reqs' = Append(reqs, go.req)
                /\ uploadProgress' = pct
                /\ progressLog' = Append(progressLog, [u |-> u, src |-> "chunk", value |-> pct])
                /\ UNCHANGED <<isUploading, notifications>>
    /\ UNCHANGED <<selectedType, open, userId, uuidCounter, resetTimer, waits>>
    /\ UNCHANGED serverVars

EmptyBody == [raw |-> <<>>, json |-> FALSE, detail |-> <<>>]

FinalizeOutcomes ==
    {[kind |-> "ok", body |-> EmptyBody], [kind |-> "threw", body |-> EmptyBody]}
        \cup {[kind |-> "notok", body |-> b] : b \in FinalizeBodies}

Or(a, b) == IF a = <<>> THEN b ELSE a

\* if (!resp.ok): the Error thrown inside the try is caught by its own catch, which
\* throws new Error(errText || 'Finalizing upload failed') in every case.
FinalizeErrorMessage(body) ==
    LET inTry == IF body.json THEN Or(body.detail, <<"Finalizing upload failed">>)
                 ELSE <<"SyntaxError">>
    IN  Or(body.raw, <<"Finalizing upload failed">>)

FinalizeOkUnchecked(resp) == resp.kind # "threw"

\* resp.ok of the finalize response (fetch resolves for every HTTP status)
FinalizeOk(resp) == resp.kind = "ok"

\* The finalize request of invocation u comes back.
FinalizeResponse(u, resp) ==
    /\ Live(u)
    /\ ups[u].pc = "await_finalize"
    /\ IF FinalizeOk(resp)
       THEN /\ ups' = [ups EXCEPT ![u].pc = "completed"]
            /\ reqs' = Settle(u, "ok")
            /\ uploadProgress' = FinalProgress
            /\ progressLog' = Append(progressLog, [u |-> u, src |-> "final", value |-> FinalProgress])
            /\ notifications' = Append(notifications,
                   Notification(u, "success", <<"Content uploaded successfully!">>))
            /\ resetTimer' = resetTimer \cup {u}
            /\ UNCHANGED isUploading
       ELSE /\ Catch(u, IF resp.kind = "threw" THEN FetchErrorMessage
                        ELSE FinalizeErrorMessage(resp.body),
                     ups, progressLog, notifications)
            /\ reqs' = Settle(u, "failed")
            /\ UNCHANGED resetTimer
    /\ UNCHANGED <<selectedType, open, userId, uuidCounter, waits>>
    /\ UNCHANGED serverVars

\* setTimeout(() => { invalidateQueries(...); resetModal(); }, 1200) fires.
ResetTimerFires(u) ==
    /\ u \in resetTimer
    /\ resetTimer' = resetTimer \ {u}
    /\ resetModal(u)
    /\ UNCHANGED <<userId, ups, uuidCounter, reqs, waits, notifications>>
    /\ UNCHANGED serverVars

Next ==
    \/ OpenDialog
    \/ CloseDialog
    \/ \E t \in UploadTypes : SelectType(t)
    \/ Back
    \/ Cancel
    \/ \E data \in FormData : onSubmit(data)
    \/ \E u \in 1..MaxUploads, outcome \in ChunkOutcomes : ChunkResponse(u, outcome)
    \/ \E u \in 1..MaxUploads : BackoffElapsed(u)
    \/ \E u \in 1..MaxUploads, resp \in FinalizeOutcomes : FinalizeResponse(u, resp)
    \/ \E u \in 1..MaxUploads : ResetTimerFires(u)

Spec == Init /\ [][Next]_vars

\* What the event loop owes a suspended invocation u: the response (or throw) of
\* its pending fetch, or the expiry of its backoff timer.
Resume(u) ==
    \/ \E outcome \in ChunkOutcomes : ChunkResponse(u, outcome)
    \/ BackoffElapsed(u)
    \/ \E resp \in FinalizeOutcomes : FinalizeResponse(u, resp)

\* Every request eventually returns or throws and every timer fires.
SpecFair == Spec /\ \A u \in 1..MaxUploads : WF_vars(Resume(u))

(***************************************************************************)
(* Uploads of large video files to a server that can fail the first chunk  *)
(* only                                                                    *)
(***************************************************************************)
\* A file of 110 MiB and one byte: 23 chunks.
LargeFile == [name |-> MediaFileName, size |-> 110 * MiB + 1]

\* A file of 1000 MiB and one byte: 201 chunks.
HugeFile == [name |-> MediaFileName, size |-> 1000 * MiB + 1]

LargeFormData == [title : {<<>>}, content : {<<>>}, file : {LargeFile, HugeFile, NoFile}]

\* Invocation u is at its first chunk.
AtFirstChunk(u) == Live(u) /\ ups[u].i = 0

NextLargeFile ==
    \/ OpenDialog
    \/ CloseDialog
    \/ SelectType("video")
    \/ Back
    \/ Cancel
    \/ \E data \in LargeFormData : onSubmit(data)
    \/ \E u \in 1..MaxUploads : ChunkResponse(u, "ok")
    \/ \E u \in 1..MaxUploads, outcome \in ChunkOutcomes :
           AtFirstChunk(u) /\ ChunkResponse(u, outcome)
    \/ \E u \in 1..MaxUploads : BackoffElapsed(u)
    \/ \E u \in 1..MaxUploads, resp \in FinalizeOutcomes : FinalizeResponse(u, resp)
    \/ \E u \in 1..MaxUploads : ResetTimerFires(u)

SpecLargeFile == Init /\ [][NextLargeFile]_vars

(***************************************************************************)
(* The earlier modal with simulated progress (components/upload-modal.tsx) *)
(* It has the same state and the same dialog, type, back and cancel        *)
(* handlers; ups holds, per onSubmit invocation, whether its interval      *)
(* timer is still set and how its mutation stands.                         *)
(***************************************************************************)
\* Math.random() * 15, by its integer part
RandomIncrements == 0..14

\* if (prev >= 90)
ProgressCap == 90

\* onSubmit of the earlier modal: setIsUploading(true), setInterval(..., 200),
\* uploadMutation.mutate(...)
SimulatedSubmit ==
    /\ open
    /\ selectedType # NoType
    /\ ~SubmitDisabled
    /\ Len(ups) < MaxUploads
    /\ isUploading' = TRUE
    /\ ups' = Append(ups, [pc |-> "pending", interval |-> TRUE])
    /\ UNCHANGED <<selectedType, uploadProgress, open, userId, uuidCounter, resetTimer,
                   reqs, progressLog, waits, notifications>>
    /\ UNCHANGED serverVars

\* The interval timer of invocation u fires: the updater of setUploadProgress
IntervalTick(u, random) ==
    /\ u \in 1..Len(ups)
    /\ ups[u].interval
    /\ IF uploadProgress >= ProgressCap
       THEN /\ ups' = [ups EXCEPT ![u].interval = FALSE]
            /\ UNCHANGED uploadProgress
       ELSE /\ uploadProgress' = uploadProgress + random
            /\ UNCHANGED ups
    /\ UNCHANGED <<selectedType, isUploading, open, userId, uuidCounter, resetTimer,
                   reqs, progressLog, waits, notifications>>
    /\ UNCHANGED serverVars

\* uploadMutation.onSuccess: notification, resetModal
MutationSuccess(u) ==
    /\ u \in 1..Len(ups)
    /\ ups[u].pc = "pending"
    /\ ups' = [ups EXCEPT ![u].pc = "succeeded"]
    /\ notifications' = Append(notifications,
           Notification(u, "success", <<"Content uploaded successfully!">>))
    /\ resetModal(0)
    /\ UNCHANGED <<userId, uuidCounter, resetTimer, reqs, waits>>
    /\ UNCHANGED serverVars

\* uploadMutation.onError: notification, setIsUploading(false), setUploadProgress(0)
MutationError(u) ==
    /\ u \in 1..Len(ups)
    /\ ups[u].pc = "pending"
    /\ ups' = [ups EXCEPT ![u].pc = "errored"]
    /\ notifications' = Append(notifications, Notification(u, "error", <<"Upload failed">>))
    /\ isUploading' = FALSE
    /\ uploadProgress' = 0
    /\ UNCHANGED <<selectedType, open, userId, uuidCounter, resetTimer, reqs, progressLog,
                   waits>>
    /\ UNCHANGED serverVars

NextSimulated ==
    \/ OpenDialog
    \/ CloseDialog
    \/ \E t \in UploadTypes : SelectType(t)
    \/ Back
    \/ Cancel
    \/ SimulatedSubmit
    \/ \E u \in 1..MaxUploads, random \in RandomIncrements : IntervalTick(u, random)
    \/ \E u \in 1..MaxUploads : MutationSuccess(u)
    \/ \E u \in 1..MaxUploads : MutationError(u)

SpecSimulated == Init /\ [][NextSimulated]_vars

(***************************************************************************)
(* The server's routes                                                     *)
(***************************************************************************)
\* GET /api/v1/users/:userId/contributions
GetUserContributions(token, paramUserId) ==
    /\ response = NoResponse
    /\ LET auth == authenticateToken(token)
       IN  response' =
               IF auth.status # 0
               THEN Reply("contributions", token, paramUserId, auth.status, <<>>)
               ELSE IF AccessDenied(auth.user, paramUserId)
               THEN Reply("contributions", token, paramUserId, 403, <<>>)
               ELSE Reply("contributions", token, paramUserId, 200,
                          getUserContributions(paramUserId))
    /\ UNCHANGED <<contributions, now>>
    /\ UNCHANGED vars

\* POST /api/v1/records/upload: valid says whether the body passes
\* insertContributionSchema; the contribution belongs to req.user.userId.
UploadRecord(token, valid) ==
    /\ response = NoResponse
    /\ LET auth == authenticateToken(token)
           contribution == [id |-> Len(contributions) + 1, userId |-> auth.user,
                            createdAt |-> now]
       IN  IF auth.status # 0
           THEN /\ response' = Reply("upload", token, "", auth.status, <<>>)
                /\ UNCHANGED contributions
           ELSE IF ~valid
           THEN /\ response' = Reply("upload", token, "", 400, <<>>)
                /\ UNCHANGED contributions
           ELSE /\ Len(contributions) < Len(demoContributions) + MaxContributions
                /\ contributions' = Append(contributions, contribution)
                /\ response' = Reply("upload", token, "", 201, <<contribution>>)
    /\ UNCHANGED now
    /\ UNCHANGED vars

\* The response leaves the server.
Send ==
    /\ response # NoResponse
    /\ response' = NoResponse
    /\ UNCHANGED <<contributions, now>>
    /\ UNCHANGED vars

\* An hour passes.
Tick ==
    /\ now < MaxNow
    /\ now' = now + 1
    /\ UNCHANGED <<contributions, response>>
    /\ UNCHANGED vars

NextServer ==
    \/ \E token \in Tokens, paramUserId \in UserIdParams :
           GetUserContributions(token, paramUserId)
    \/ \E token \in Tokens, valid \in BOOLEAN : UploadRecord(token, valid)
    \/ Send
    \/ Tick

SpecServer == Init /\ [][NextServer]_serverVars

(***************************************************************************)
(* Reading the histories                                                   *)
(***************************************************************************)
Uploads == 1..Len(ups)

\* Invocations that entered uploadFileInChunks and are still in the histories.
Observed == {u \in Uploads : ups[u].file # NoFile}

RequestsOf(u) == SelectSeq(reqs, LAMBDA r : r.u = u)

ChunkRequestsOf(u) == SelectSeq(reqs, LAMBDA r : r.u = u /\ r.kind = "chunk")

FinalizeRequestsOf(u) == SelectSeq(reqs, LAMBDA r : r.u = u /\ r.kind = "finalize")

AttemptsOf(u, j) == SelectSeq(ChunkRequestsOf(u), LAMBDA r : r.chunk_index = j)

FailuresOf(u, j) == Len(SelectSeq(AttemptsOf(u, j), LAMBDA r : r.result = "failed"))

Acknowledged(u) == {j \in 0..ups[u].totalChunks - 1 :
                       \E k \in 1..Len(reqs) : /\ reqs[k].u = u
                                               /\ reqs[k].kind = "chunk"
                                               /\ reqs[k].chunk_index = j
                                               /\ reqs[k].result = "ok"}

WaitsOf(u, j) == SelectSeq(waits, LAMBDA w : w.u = u /\ w.chunk_index = j)

Range(seq) == {seq[k] : k \in 1..Len(seq)}

(***************************************************************************)
(* Claims                                                                  *)
(***************************************************************************)
\* C1: for a file of size k > 0, totalChunks is the least n with n * 5 MiB >= k
\* (that is, ceil(k / 5 MiB)); every chunk sent is the non-empty range
\* [i*5MiB, min(k, (i+1)*5MiB)), chunk 0 starts at 0, chunk i+1 starts where chunk
\* i ends, the last chunk ends at k, and once the loop is over every index
\* 0..totalChunks-1 has been sent: the ranges cover [0, k) with no gap or overlap.
C1_ChunksCoverFile ==
    \A u \in Observed :
        LET k == ups[u].file.size
            n == ups[u].totalChunks
            sent == Range(ChunkRequestsOf(u))
        IN  k > 0 =>
              /\ n >= 1 /\ (n - 1) * CHUNK_SIZE < k /\ k <= n * CHUNK_SIZE
              /\ \A r \in sent :
                    /\ r.chunk_index \in 0..n - 1
                    /\ r.start = r.chunk_index * CHUNK_SIZE
                    /\ r.start < r.end
                    /\ r.end <= k
                    /\ r.end - r.start <= CHUNK_SIZE
                    /\ r.chunk_index = 0 => r.start = 0
                    /\ r.chunk_index = n - 1 => r.end = k
              /\ \A a, b \in sent : b.chunk_index = a.chunk_index + 1 => b.start = a.end
              /\ FinalizeRequestsOf(u) # <<>> =>
                    {r.chunk_index : r \in sent} = 0..n - 1

\* The 12 MiB example: three chunks [0,5MiB), [5MiB,10MiB), [10MiB,12MiB) sent and
\* the finalize request issued.
C1_Witness ==
    \E u \in Observed :
        /\ ups[u].file.size = 12 * MiB
        /\ ups[u].totalChunks = 3
        /\ FinalizeRequestsOf(u) # <<>>
        /\ {<<r.start, r.end>> : r \in Range(ChunkRequestsOf(u))}
              = {<<0, 5 * MiB>>, <<5 * MiB, 10 * MiB>>, <<10 * MiB, 12 * MiB>>}

\* C2: the chunk_index values of the chunk requests of one upload start at 0 and
\* from one request to the next stay the same or grow by 1; the index stays the
\* same only right after a failed attempt of that index, and never after it was
\* acknowledged.
C2_ChunkOrder ==
    \A u \in Observed :
        LET cs == ChunkRequestsOf(u)
        IN  /\ cs # <<>> => cs[1].chunk_index = 0
            /\ \A k \in 1..Len(cs) - 1 :
                  /\ cs[k + 1].chunk_index \in {cs[k].chunk_index, cs[k].chunk_index + 1}
                  /\ cs[k + 1].chunk_index = cs[k].chunk_index => cs[k].result = "failed"
                  /\ cs[k + 1].chunk_index = cs[k].chunk_index + 1 => cs[k].result = "ok"
            /\ \A k, l \in 1..Len(cs) :
                  k < l /\ cs[k].result = "ok" => cs[l].chunk_index > cs[k].chunk_index

\* A retry of chunk 1 followed by chunk 2: indices 0, 1, 1, 2.
C2_Witness ==
    \E u \in Observed :
        LET cs == ChunkRequestsOf(u)
        IN  /\ Len(cs) = 4
            /\ [k \in 1..4 |-> cs[k].chunk_index] = <<0, 1, 1, 2>>

\* C3: at most one request of an upload is in flight: whenever a request (chunk,
\* retry or finalize) is in the history, every earlier request of the same upload
\* has returned or thrown, and nothing is in flight during a backoff wait.
C3_OneInFlight ==
    \A u \in Observed :
        LET rs == RequestsOf(u)
        IN  /\ Cardinality(Pending(u)) <= 1
            /\ \A k \in 1..Len(rs) - 1 : rs[k].result # "pending"
            /\ ups[u].pc \in {"backoff"} \cup Ended => Pending(u) = {}

\* A retry in flight after a failed attempt, and a finalize in flight after chunks.
C3_Witness ==
    \E u \in Observed :
        LET rs == RequestsOf(u)
        IN  /\ Len(rs) >= 3
            /\ rs[Len(rs)].result = "pending"
            /\ rs[Len(rs)].kind = "finalize"
            /\ \E k \in 1..Len(rs) - 1 : rs[k].result = "failed"

\* C4: every chunk reached gets between 1 and 3 requests, numbered 1, 2, 3; an
\* attempt settled by a throw or a non-ok response is a failed one (it leaves the
\* error in lastError); attempt n+1 exists only after attempt n failed, and none
\* follows a success or the third failure.
C4_AttemptsPerChunk ==
    \A u \in Observed :
        /\ \A j \in 0..ups[u].totalChunks - 1 :
              LET as == AttemptsOf(u, j)
              IN  /\ Len(as) <= 3
                  /\ (j < ups[u].i \/ (j = ups[u].i /\ ups[u].pc \in {"await_chunk", "backoff"}))
                        => Len(as) >= 1
                  /\ \A k \in 1..Len(as) :
                        /\ as[k].attempt = k
                        /\ k < Len(as) => as[k].result = "failed"
                        /\ as[k].result \in {"pending", "ok", "failed"}
        /\ ups[u].pc = "backoff" =>
              /\ ups[u].lastError \in {ChunkErrorBody, FetchError}
              /\ LET as == AttemptsOf(u, ups[u].i)
                 IN  as # <<>> /\ as[Len(as)].result = "failed"
                                /\ as[Len(as)].attempt = ups[u].attempt

\* A chunk with three attempts, the third one after a thrown fetch.
C4_Witness ==
    \E u \in Observed :
        /\ Len(AttemptsOf(u, 0)) = 3
        /\ ups[u].pc = "await_chunk"
        /\ ups[u].lastError = FetchError

\* C5: once a chunk has failed three times the upload is aborted: no request with
\* a higher chunk_index and no finalize request exists, the invocation is in its
\* last backoff wait or has failed, and when it has failed it has reported exactly
\* one error, "Chunk upload failed: <last error>", and nothing is in flight.
C5_AbortAfterThreeFailures ==
    \A u \in Observed :
        \A j \in 0..ups[u].totalChunks - 1 :
            FailuresOf(u, j) >= 3 =>
                /\ \A r \in Range(ChunkRequestsOf(u)) : r.chunk_index <= j
                /\ FinalizeRequestsOf(u) = <<>>
                /\ ups[u].pc \in {"backoff", "failed"}
                /\ ups[u].pc = "failed" =>
                      /\ Pending(u) = {}
                      /\ SelectSeq(notifications, LAMBDA n : n.u = u)
                            = <<Notification(u, "error",
                                     <<"Chunk upload failed: ">> \o ups[u].lastError)>>

\* Chunk 1 of three failed three times after chunk 0 was acknowledged; the upload
\* has failed with chunk 2 never sent.
C5_Witness ==
    \E u \in Observed :
        /\ ups[u].totalChunks = 3
        /\ FailuresOf(u, 1) = 3
        /\ ups[u].pc = "failed"

\* C6: a chunk that failed twice and succeeded on the 3rd attempt is acknowledged
\* and followed by the request for the next chunk, or by the finalize request after
\* the last chunk; its backoff waits are exactly 500 ms after attempt 1 and 1000 ms
\* after attempt 2, each logged before the attempt it precedes was sent.
C6_ThirdAttemptSucceeds ==
    \A u \in Observed :
        \A j \in 0..ups[u].totalChunks - 1 :
            LET as == AttemptsOf(u, j)
                rs == RequestsOf(u)
            IN  /\ \A k \in 2..Len(as) :
                      \E w \in Range(WaitsOf(u, j)) :
                          w.attempt = k - 1 /\ w.ms = 500 * (k - 1)
                /\ [k \in 1..Len(as) |-> as[k].result] = <<"failed", "failed", "ok">> =>
                      /\ j \in Acknowledged(u)
                      /\ [k \in 1..Len(WaitsOf(u, j)) |-> WaitsOf(u, j)[k].ms] = <<500, 1000>>
                      /\ [k \in 1..Len(WaitsOf(u, j)) |-> WaitsOf(u, j)[k].attempt] = <<1, 2>>
                      /\ \E k \in 2..Len(rs) :
                            /\ rs[k - 1] = as[3]
                            /\ IF j + 1 < ups[u].totalChunks
                               THEN rs[k].kind = "chunk" /\ rs[k].chunk_index = j + 1
                                    /\ rs[k].attempt = 1
                               ELSE rs[k].kind = "finalize"

\* The only chunk of a file failed twice (once by a response, once by a throw or
\* the like), succeeded on the 3rd attempt, and the upload completed.
C6_Witness ==
    \E u \in Observed :
        /\ ups[u].totalChunks = 1
        /\ [k \in 1..Len(AttemptsOf(u, 0)) |-> AttemptsOf(u, 0)[k].result]
              = <<"failed", "failed", "ok">>
        /\ ups[u].pc = "completed"

\* C7 (as claimed): backoff waits occur only between attempts: a wait follows
\* failed attempt n < 3 and lasts 500 ms * n, so a chunk has at most two waits,
\* 500 ms and 1000 ms, and none follows the third failed attempt.
C7_WaitsOnlyBetweenAttempts ==
    \A u \in Observed :
        \A j \in 0..ups[u].totalChunks - 1 :
            /\ Len(WaitsOf(u, j)) <= 2
            /\ \A w \in Range(WaitsOf(u, j)) :
                  /\ w.attempt < MaxAttempts
                  /\ w.ms \in {500, 1000}
                  /\ w.ms = 500 * w.attempt

\* C8 (as claimed): the progress is set to 100 only after the finalize request of
\* the upload has succeeded.
C8_HundredOnlyAfterFinalize ==
    \A k \in 1..Len(progressLog) :
        progressLog[k].value = 100 =>
            \E r \in Range(FinalizeRequestsOf(progressLog[k].u)) : r.result = "ok"

\* C9: an upload sends at most one finalize request; it is sent exactly when the
\* chunk loop is over with every chunk 0..totalChunks-1 acknowledged, comes after
\* every chunk request, carries total_chunks = the number of acknowledged chunks and
\* the filename of the chunk requests; an upload that gave up on a chunk sends none.
C9_OneFinalize ==
    \A u \in Observed :
        LET fs == FinalizeRequestsOf(u)
            cs == ChunkRequestsOf(u)
            rs == RequestsOf(u)
            allAcked == Acknowledged(u) = 0..ups[u].totalChunks - 1
        IN  /\ Len(fs) <= 1
            /\ (Len(fs) = 1) <=> allAcked
            /\ fs # <<>> =>
                  /\ rs[Len(rs)] = fs[1]
                  /\ fs[1].total_chunks = Cardinality(Acknowledged(u))
                  /\ fs[1].total_chunks = Len(SelectSeq(cs, LAMBDA r : r.result = "ok"))
                  /\ \A r \in Range(cs) : r.filename = fs[1].filename
                  /\ fs[1].filename = ups[u].file.name
            /\ (\E j \in 0..ups[u].totalChunks - 1 : FailuresOf(u, j) >= 3) => fs = <<>>

\* The finalize request of a three-chunk upload with a retried chunk has come back.
C9_Witness ==
    \E u \in Observed :
        /\ ups[u].totalChunks = 3
        /\ Len(FinalizeRequestsOf(u)) = 1
        /\ FinalizeRequestsOf(u)[1].total_chunks = 3
        /\ FinalizeRequestsOf(u)[1].result = "ok"
        /\ Len(ChunkRequestsOf(u)) > 3

\* C10: every request of an upload, retries and finalize included, carries the
\* upload_uuid generated at the start of that upload and the same total_chunks;
\* randomUUID is called once per upload that reaches uploadFileInChunks.
C10_OneTransferId ==
    /\ \A u \in Observed :
          \A r \in Range(RequestsOf(u)) :
              /\ r.upload_uuid = ups[u].uploadUuid
              /\ r.total_chunks = ups[u].totalChunks
    /\ \A a, b \in Range(reqs) :
          a.u = b.u => a.upload_uuid = b.upload_uuid /\ a.total_chunks = b.total_chunks
    /\ uuidCounter = Cardinality({u \in Uploads : ups[u].uploadUuid # 0})

\* A second upload whose chunk 1 is retried and whose finalize request is out.
C10_Witness ==
    \E u \in Observed :
        /\ u = 2
        /\ uuidCounter = 2
        /\ Len(AttemptsOf(u, 1)) >= 2
        /\ FinalizeRequestsOf(u) # <<>>

\* The session's chunksAcknowledged: the chunks of u the endpoint has confirmed.
ChunksAcknowledged(u) == Cardinality(Acknowledged(u))

C11_Invariant ==
    \A u \in Observed :
        /\ ChunksAcknowledged(u) <= ups[u].totalChunks
        /\ ChunksAcknowledged(u)
              = Len(SelectSeq(ChunkRequestsOf(u), LAMBDA r : r.result = "ok"))
        /\ ups[u].pc \in {"await_chunk", "backoff"} => ChunksAcknowledged(u) = ups[u].i
        /\ ups[u].pc = "completed" =>
              /\ ChunksAcknowledged(u) = ups[u].totalChunks
              /\ \E r \in Range(FinalizeRequestsOf(u)) : r.result = "ok"

C11_Step ==
    \A u \in 1..MaxUploads :
        (u \in Observed /\ (u \in Observed)') =>
            /\ ChunksAcknowledged(u)' >= ChunksAcknowledged(u)
            /\ ChunksAcknowledged(u)' <= ChunksAcknowledged(u) + 1
            /\ ChunkResponse(u, "ok") => ChunksAcknowledged(u)' = ChunksAcknowledged(u) + 1
            /\ ChunksAcknowledged(u)' # ChunksAcknowledged(u) => ChunkResponse(u, "ok")

\* C11: chunksAcknowledged <= totalChunks in every state; from one state to the
\* next it never decreases and grows by exactly 1, exactly when a chunk request
\* comes back ok; a session is Completed only with chunksAcknowledged = totalChunks
\* and a finalize request that came back ok.
C11_ChunksAcknowledged == []C11_Invariant /\ [][C11_Step]_vars

\* A completed upload of three chunks, each acknowledged once, one after a retry.
C11_Witness ==
    \E u \in Observed :
        /\ ups[u].pc = "completed"
        /\ ups[u].totalChunks = 3
        /\ ChunksAcknowledged(u) = 3
        /\ Len(ChunkRequestsOf(u)) = 4

\* The state of the UploadSession of invocation u.
SessionState(u) ==
    IF u > Len(ups) THEN "Pending"
    ELSE CASE ups[u].pc \in {"await_chunk", "backoff"} -> "InProgress"
           [] ups[u].pc = "await_finalize" -> "Finalizing"
           [] ups[u].pc = "completed" -> "Completed"
           [] ups[u].pc = "failed" -> "Failed"
           [] OTHER -> "None"

\* The moves of the session state machine. One run of onSubmit up to its first
\* await may take several of them: Pending -> InProgress -> Failed on invalid
\* input, Pending -> InProgress -> Finalizing for a file of no chunks.
SessionMoves ==
    { <<"Pending", "InProgress">>, <<"InProgress", "Finalizing">>,
      <<"Finalizing", "Completed">>, <<"InProgress", "Failed">>,
      <<"Finalizing", "Failed">>,
      <<"Pending", "Failed">>, <<"Pending", "Finalizing">> }

C12_Step ==
    \A u \in 1..MaxUploads :
        LET s == SessionState(u)
            t == SessionState(u)'
        IN  (s # "None" /\ t # "None") =>
              /\ s # t => <<s, t>> \in SessionMoves
              /\ (s # t /\ t = "Finalizing") =>
                    (Acknowledged(u) = 0..ups[u].totalChunks - 1)'
              /\ (s # t /\ t = "Completed") =>
                    (\E r \in Range(FinalizeRequestsOf(u)) : r.result = "ok")'
              /\ s \in {"Completed", "Failed"} =>
                    /\ t = s
                    /\ Len(RequestsOf(u))' <= Len(RequestsOf(u))
                    /\ (Pending(u) = {})'

\* C12: a session moves only Pending -> InProgress (upload called) -> Finalizing
\* (all chunks acknowledged) -> Completed (finalize acknowledged), or from
\* InProgress or Finalizing to Failed; from Completed and Failed it moves nowhere,
\* and no request of that session is sent any more.
C12_SessionStateMachine == [][C12_Step]_vars

\* A session that failed, after which a second one has its first chunk acknowledged.
C12_Witness ==
    /\ Len(ups) = 2
    /\ SessionState(1) = "Failed"
    /\ SessionState(2) = "InProgress"
    /\ ups[2].i = 1

\* Input the claim calls invalid: text with empty or all-whitespace content, or
\* another type with no file.
C13_Invalid(p) ==
    \/ p.mediaType = "text"
          /\ \A k \in 1..Len(p.text.content) : p.text.content[k] \in {" ", "\t", "\n"}
    \/ p.mediaType \in UploadTypes \ {"text"} /\ p.file = NoFile

\* C13: a submission with invalid input has failed with exactly one error
\* notification without sending any chunk or finalize request and without
\* generating a transfer identifier.
C13_InvalidInputSendsNothing ==
    \A u \in Uploads :
        C13_Invalid(ups[u]) =>
            /\ ups[u].pc = "failed"
            /\ RequestsOf(u) = <<>>
            /\ ups[u].uploadUuid = 0
            /\ WaitsOf(u, 0) = <<>>
            /\ Len(SelectSeq(notifications, LAMBDA n : n.u = u)) = 1
            /\ \A n \in Range(notifications) : n.u = u => n.type = "error"

\* A text submission with blank content was refused by a signed-in user.
C13_Witness ==
    /\ ups # <<>>
    /\ userId # ""
    /\ ups[Len(ups)].pc = "failed"
    /\ ups[Len(ups)].mediaType = "text"
    /\ ups[Len(ups)].text.content = <<" ", " ">>
    /\ RequestsOf(Len(ups)) = <<>>
    /\ notifications # <<>>
    /\ notifications[Len(notifications)]
          = Notification(Len(ups), "error", <<"No text content provided.">>)

C14_Step ==
    \A u \in 1..MaxUploads, b \in FinalizeBodies :
        (Live(u) /\ FinalizeResponse(u, [kind |-> "notok", body |-> b])) =>
            /\ ups'[u].pc = "failed"
            /\ Len(reqs') = Len(reqs)
            /\ (Pending(u) = {})'
            /\ (Len(FinalizeRequestsOf(u)) = 1)'
            /\ (ChunkRequestsOf(u))' = ChunkRequestsOf(u)
            /\ Len(notifications') = Len(notifications) + 1
            /\ notifications'[Len(notifications')].u = u
            /\ notifications'[Len(notifications')].type = "error"
            /\ \A n \in Range(notifications') : n.u = u => n.type # "success"
            /\ resetTimer' = resetTimer
            /\ ~isUploading'

\* C14: a non-success finalize response ends the upload as failed in that very
\* step: one error notification, no success notification, no new request of any
\* kind (no finalize retry, no chunk re-sent, no cleanup call), no reset timer.
C14_FinalizeFailureIsFinal == [][C14_Step]_vars

\* The finalize request of a two-chunk upload came back with a non-success body.
C14_Witness ==
    \E u \in Observed :
        /\ ups[u].pc = "failed"
        /\ ups[u].totalChunks = 2
        /\ \E r \in Range(FinalizeRequestsOf(u)) : r.result = "failed"
        /\ notifications[Len(notifications)] = Notification(u, "error", <<"Bad Gateway">>)

(***************************************************************************)
(* C15                                                                     *)
(***************************************************************************)
NotificationsOf(u) == SelectSeq(notifications, LAMBDA n : n.u = u)

\* The invocations whose notifications are still on record.
Reported == {u \in Uploads : u = Len(ups) \/ ups[u].mediaType # NoType}

\* C15: an invocation has notified nothing while it runs and exactly one outcome
\* once it has ended: one success when it completed, one error when it failed or
\* was refused, never both.
C15_OneTerminalNotification ==
    \A u \in Reported :
        LET ns == NotificationsOf(u)
        IN  /\ Len(ns) <= 1
            /\ Live(u) => ns = <<>>
            /\ ups[u].pc = "completed" => Len(ns) = 1 /\ ns[1].type = "success"
            /\ ups[u].pc \in {"failed", "rejected"} => Len(ns) = 1 /\ ns[1].type = "error"

\* A second upload was refused at finalize after a chunk retry and has reported
\* exactly one error.
C15_Witness ==
    /\ Len(ups) = 2
    /\ ups[2].pc = "failed"
    /\ FinalizeRequestsOf(2) # <<>>
    /\ Len(ChunkRequestsOf(2)) > ups[2].totalChunks
    /\ Len(NotificationsOf(2)) = 1
    /\ NotificationsOf(2)[1].type = "error"

(***************************************************************************)
(* C16                                                                     *)
(***************************************************************************)
\* Invocations on record that were aborted by the chunk loop.
ChunkAborted == {u \in Reported : /\ ups[u].pc = "failed"
                                  /\ ChunkRequestsOf(u) # <<>>
                                  /\ FinalizeRequestsOf(u) = <<>>}

Contains(message, parts) ==
    \E k \in 0..(Len(message) - Len(parts)) : SubSeq(message, k + 1, k + Len(parts)) = parts

\* The error reported for a chunk failure differs from every error a finalize
\* failure can give.
C16_Distinguishable ==
    \A u \in ChunkAborted :
        /\ NotificationsOf(u)[1].message
              \notin {FinalizeErrorMessage(resp.body) : resp \in FinalizeOutcomes}
                        \cup {FetchErrorMessage}
        /\ Contains(NotificationsOf(u)[1].message, ups[u].lastError)

\* C16: the error reported for a chunk failure differs from a finalize failure's
\* and carries the index of the chunk that could not be delivered and the last
\* error.
C16_ChunkFailureNamesIndex ==
    /\ C16_Distinguishable
    /\ \A u \in ChunkAborted :
           Contains(NotificationsOf(u)[1].message, <<ToString(ups[u].i)>>)

(***************************************************************************)
(* C17                                                                     *)
(***************************************************************************)
\* The invocations that generated a transfer identifier.
Started == {u \in Uploads : ups[u].uploadUuid # 0}

\* C17: two invocations that generated a transfer identifier hold different ones,
\* a restart after a failed upload included, and every request carries the
\* identifier of its own invocation: requests of two uploads never share one.
C17_DistinctTransferIds ==
    /\ \A u, v \in Started : u # v => ups[u].uploadUuid # ups[v].uploadUuid
    /\ \A k \in 1..Len(reqs) : /\ reqs[k].u \in Started
                               /\ reqs[k].upload_uuid = ups[reqs[k].u].uploadUuid

\* A restart after an upload that failed in its chunk loop has sent requests.
C17_Witness ==
    /\ Len(ups) = 2
    /\ ups[1].pc = "failed" /\ 1 \in Started
    /\ 2 \in Started
    /\ RequestsOf(2) # <<>>
    /\ ups[2].uploadUuid # ups[1].uploadUuid

(***************************************************************************)
(* C18                                                                     *)
(***************************************************************************)
\* The file names and sizes the text submissions are expected to give.
C18_ExpectedName(title) ==
    CASE title = <<"G", "r", "e", "e", "t", "i", "n", "g">> ->
             <<"G", "r", "e", "e", "t", "i", "n", "g", ".", "t", "x", "t">>
      [] title = <<>> ->
             <<"t", "e", "x", "t", "-", "c", "o", "n", "t", "e", "n", "t", ".", "t", "x", "t">>
      [] title = <<"a", " ", " ", "b">> -> <<"a", "-", "b", ".", "t", "x", "t">>

C18_ExpectedSize(content) ==
    CASE content = <<"h", "e", "l", "l", "o">> -> 5
      [] content = <<"h", "U+00E9">> -> 3
      [] content = <<" ", " ">> -> 2

\* The text submission p was wrapped into its file and sent through the chunk
\* pipeline under that file's name.
C18_Wrapped(u) ==
    LET p == ups[u]
    IN  /\ p.file = [name |-> C18_ExpectedName(p.text.title),
                     size |-> C18_ExpectedSize(p.text.content)]
        /\ p.totalChunks * CHUNK_SIZE >= p.file.size
        /\ (p.totalChunks - 1) * CHUNK_SIZE < p.file.size
        /\ p.totalChunks = 1
        /\ ChunkRequestsOf(u) # <<>>
        /\ \A k \in 1..Len(reqs) :
               reqs[k].u = u => /\ reqs[k].filename = p.file.name
                                /\ reqs[k].total_chunks = p.totalChunks

\* The claim as stated, for every non-empty content: refuted by a content of two
\* spaces, which is refused and never wrapped.
C18_NonEmptyContentWrapped ==
    \A u \in Uploads :
        (ups[u].mediaType = "text" /\ ups[u].text.content # <<>>) => C18_Wrapped(u)

\* C18 (amended): a text contribution whose content is not empty after trimming
\* is wrapped into a file named after the title (whitespace runs replaced by '-',
\* 'text-content' for an empty title) with suffix .txt, whose size is the
\* content's byte length; it goes through the chunk pipeline with
\* totalChunks = ceil(size / 5 MiB), chunk and finalize requests carrying that
\* file name.
C18_TextFileWrapped ==
    \A u \in Uploads :
        (ups[u].mediaType = "text" /\ ~C13_Invalid(ups[u])) => C18_Wrapped(u)

\* A text with an empty title and a two-character, three-byte content completed.
C18_Witness ==
    /\ ups # <<>>
    /\ LET u == Len(ups)
       IN  /\ ups[u].mediaType = "text"
           /\ ups[u].text = [title |-> <<>>, content |-> <<"h", "U+00E9">>]
           /\ ups[u].pc = "completed"
           /\ ups[u].file.size = 3
           /\ Len(FinalizeRequestsOf(u)) = 1
           /\ FinalizeRequestsOf(u)[1].filename = C18_ExpectedName(<<>>)

(***************************************************************************)
(* C19                                                                     *)
(***************************************************************************)
\* An upload's requests number at most 3 * totalChunks + 1.
C19_RequestBound ==
    \A u \in Observed : Len(RequestsOf(u)) <= 3 * ups[u].totalChunks + 1

\* A started upload that is not suspended is Completed or Failed, and stays so.
C19_Outcome ==
    \A u \in Started : ~Live(u) => ups[u].pc \in {"completed", "failed"}

C19_OutcomeIsFinal ==
    \A u \in Uploads : ups[u].pc \in Ended => ups'[u].pc = ups[u].pc

\* C19: when every request eventually returns or throws, every started upload
\* eventually is Completed or Failed (it is never left suspended for ever, what it
\* is when not suspended is one of the two, and that is final), having sent at
\* most 3 * totalChunks + 1 requests.
C19_Terminates ==
    /\ []C19_RequestBound
    /\ []C19_Outcome
    /\ [][C19_OutcomeIsFinal]_vars
    /\ \A u \in 1..MaxUploads : []<>(~Live(u))

\* An upload of three chunks completed with the most requests it can send: three
\* attempts of every chunk and the finalize request.
C19_Witness ==
    \E u \in Observed :
        /\ ups[u].pc = "completed"
        /\ ups[u].totalChunks = 3
        /\ Len(RequestsOf(u)) = 3 * ups[u].totalChunks + 1

(***************************************************************************)
(* C20                                                                     *)
(***************************************************************************)
\* The positions of the stored contributions of a user.
StoredOf(paramUserId) ==
    {k \in 1..Len(contributions) : contributions[k].userId = paramUserId}

\* C20: the contributions route answers 401 without a token and 403 to an
\* authenticated user other than :userId, sends contributions to nobody but the
\* authenticated user :userId, and the list it sends is exactly the stored
\* contributions of :userId, each once, newest first.
C20_OwnContributionsOnly ==
    response.route = "contributions" =>
        LET owner == response.token.kind = "valid" /\ response.token.userId = response.userId
            body == response.body
        IN  /\ response.token.kind = "none" => response.status = 401
            /\ (response.token.kind = "valid" /\ ~owner) => response.status = 403
            /\ response.status = 200 <=> owner
            /\ ~owner => body = <<>>
            /\ owner =>
                  /\ Len(body) = Cardinality(StoredOf(response.userId))
                  /\ \A k \in StoredOf(response.userId) :
                         \E j \in 1..Len(body) : body[j] = contributions[k]
                  /\ \A j \in 1..Len(body) :
                         \E k \in StoredOf(response.userId) : body[j] = contributions[k]
                  /\ \A i, j \in 1..Len(body) :
                         i < j => body[i].createdAt >= body[j].createdAt

\* The demo user is sent their four contributions, the one created last first,
\* while another user's contribution is stored too.
C20_Witness ==
    /\ response.route = "contributions"
    /\ response.status = 200
    /\ response.userId = "demo-user-id"
    /\ Len(response.body) = 4
    /\ response.body[1] = contributions[Len(contributions)]
    /\ StoredOf("user-2") # {}

(***************************************************************************)
(* C21                                                                     *)
(***************************************************************************)
\* The percentages set for invocation u while it runs: the initial one, those of
\* onProgress, the final one.
ProgressOf(u) ==
    SelectSeq(progressLog, LAMBDA e : e.u = u /\ e.src \in {"start", "chunk", "final"})

\* C21: the percentages set during one upload never decrease.
C21_ProgressMonotonic ==
    \A u \in Observed :
        \A k \in 1..(Len(ProgressOf(u)) - 1) :
            ProgressOf(u)[k].value <= ProgressOf(u)[k + 1].value

(***************************************************************************)
(* C22                                                                     *)
(***************************************************************************)
\* The onProgress calls of invocation u, in order.
OnProgressOf(u) == SelectSeq(progressLog, LAMBDA e : e.u = u /\ e.src = "chunk")

\* v is x = 100 * (j + 1) / n rounded to the nearest integer, halves upwards.
C22_IsRounded(v, j, n) == (2 * v - 1) * n <= 200 * (j + 1) /\ 200 * (j + 1) < (2 * v + 1) * n

\* onProgress was called once for every acknowledged chunk of u and for nothing
\* else, in the order of the chunks, with the rounded percentage.
C22_OncePerAcknowledgedChunk(u) ==
    LET calls == OnProgressOf(u)
        sent == ChunkRequestsOf(u)
    IN  /\ Len(calls) = Len(SelectSeq(sent, LAMBDA r : r.result = "ok"))
        /\ \A k \in 1..Len(calls) : C22_IsRounded(calls[k].value, k - 1, ups[u].totalChunks)
        /\ \A k \in 1..Len(sent) :
               (sent[k].result = "failed" /\ sent[k].attempt = MaxAttempts) =>
                   Len(calls) = sent[k].chunk_index

\* The claim as stated, every value being in 1..100: refuted by the first chunk of
\* a file of 201 chunks, whose percentage is 0.
C22_ProgressInOneToHundred ==
    \A u \in Observed :
        /\ C22_OncePerAcknowledgedChunk(u)
        /\ \A e \in Range(OnProgressOf(u)) : e.value \in 1..100

\* C22 (amended): after chunk chunkIndex is acknowledged onProgress is invoked
\* exactly once with round((chunkIndex+1)/totalChunks*100), a value in 0..100 that
\* is at least 1 when totalChunks <= 200; it is not invoked for a failed attempt
\* or for a chunk whose three attempts all failed.
C22_ProgressPerChunk ==
    \A u \in Observed :
        /\ C22_OncePerAcknowledgedChunk(u)
        /\ \A e \in Range(OnProgressOf(u)) :
               /\ e.value \in 0..100
               /\ ups[u].totalChunks <= 200 => e.value >= 1

\* The first chunk of a file of 201 chunks was acknowledged at its third attempt:
\* one onProgress call, with 0.
C22_Witness ==
    \E u \in Observed :
        /\ ups[u].totalChunks = 201
        /\ FailuresOf(u, 0) = 2
        /\ ups[u].i = 1
        /\ Len(OnProgressOf(u)) = 1
        /\ OnProgressOf(u)[1].value = 0

(***************************************************************************)
(* C23                                                                     *)
(***************************************************************************)
\* The step in which an invocation fails: in its catch block.
C23_FailsNow(u) ==
    /\ u \in 1..Len(ups')
    /\ ups'[u].pc = "failed"
    /\ u \in 1..Len(ups) => ups[u].pc # "failed"

\* The failing step leaves isUploading false and the progress 0, and changes
\* neither the dialog nor the selected type; it is not a resetModal, the only
\* place where form.reset() clears the form values.
C23_Step ==
    \A u \in 1..MaxUploads :
        C23_FailsNow(u) =>
            /\ isUploading' = FALSE
            /\ uploadProgress' = 0
            /\ open' = open
            /\ selectedType' = selectedType
            /\ progressLog'[Len(progressLog')] = [u |-> u, src |-> "error", value |-> 0]

\* The form data the invocation p was submitted with, as far as it reads them.
C23_SameInput(p, data) ==
    IF p.mediaType = "text"
    THEN data.title = p.text.title /\ data.content = p.text.content
    ELSE data.file = p.file

\* While the failed invocation is the last one, the submit button is enabled, and
\* with the form still on screen the same input can be submitted again.
C23_RetryPossible ==
    (ups # <<>> /\ ups[Len(ups)].pc = "failed") =>
        /\ ~isUploading
        /\ uploadProgress = 0
        /\ (open /\ selectedType = ups[Len(ups)].mediaType /\ Len(ups) < MaxUploads) =>
               \A data \in FormData :
                   C23_SameInput(ups[Len(ups)], data) => ENABLED onSubmit(data)

\* C23: when an upload fails (invalid input, chunk failure, finalize failure)
\* isUploading becomes false and the progress 0, the dialog, the selected type
\* and the form are left as they are, and the submit button is enabled again so
\* that the same input can be submitted again.
C23_FailureAllowsRetry == []C23_RetryPossible /\ [][C23_Step]_vars

\* A first upload failed at finalize with the form on screen: a retry is possible.
C23_Witness ==
    /\ Len(ups) = 1
    /\ ups[1].pc = "failed"
    /\ FinalizeRequestsOf(1) # <<>>
    /\ open
    /\ selectedType = ups[1].mediaType
    /\ ~isUploading
    /\ uploadProgress = 0
    /\ ENABLED onSubmit([title |-> <<>>, content |-> <<>>, file |-> ups[1].file])

(***************************************************************************)
(* C24                                                                     *)
(***************************************************************************)
\* What the user can do on the modal apart from submitting.
C24_UserAction ==
    \/ OpenDialog
    \/ CloseDialog
    \/ \E t \in UploadTypes : SelectType(t)
    \/ Back
    \/ Cancel

\* While an upload runs the Cancel button is disabled.
C24_CancelDisabled ==
    \A u \in Uploads : Live(u) => isUploading /\ ~ENABLED Cancel

\* A user action changes no invocation and no request: a running upload is
\* where it was, its pending request still pending.
C24_Step ==
    C24_UserAction =>
        /\ ups' = ups
        /\ reqs' = reqs
        /\ waits' = waits
        /\ \A u \in Uploads : Live(u) => Pending(u)' = Pending(u)

\* C24: a started upload cannot be cancelled: Cancel is disabled while it runs,
\* Back and closing the dialog leave its requests alone, and with every request
\* answered it still ends, Completed or Failed.
C24_NoCancelPath ==
    /\ []C24_CancelDisabled
    /\ [][C24_Step]_vars
    /\ \A u \in 1..MaxUploads :
           []<>(u \in Uploads => ups[u].pc \in {"completed", "failed", "rejected"})

\* An upload completed although the user had gone back to the type selection and
\* closed the dialog while it ran.
C24_Witness ==
    /\ Len(ups) = 1
    /\ ups[1].pc = "completed"
    /\ ups[1].totalChunks = 3
    /\ 1 \in resetTimer
    /\ ~open
    /\ selectedType = NoType

(***************************************************************************)
(* C25                                                                     *)
(***************************************************************************)
\* The invocations in flight.
InFlight == {u \in Uploads : Live(u)}

\* C25: at most one upload is in flight; isUploading is true exactly while an
\* upload runs or has succeeded and awaits the modal reset; and while it is true
\* nothing can be submitted.
C25_OneUploadInFlight ==
    /\ Cardinality(InFlight) <= 1
    /\ isUploading <=> (InFlight # {} \/ resetTimer # {})
    /\ \A u \in resetTimer : u \in Uploads /\ ups[u].pc = "completed"
    /\ isUploading => ~ENABLED (\E data \in FormData : onSubmit(data))

\* A second upload runs after the first one completed and the modal was reset;
\* with the form on screen nothing can be submitted.
C25_Witness ==
    /\ Len(ups) = 2
    /\ ups[1].pc = "completed"
    /\ InFlight = {2}
    /\ ups[2].pc = "backoff"
    /\ open
    /\ selectedType = ups[2].mediaType
    /\ isUploading
    /\ ~ENABLED (\E data \in FormData : onSubmit(data))

(***************************************************************************)
(* C26                                                                     *)
(***************************************************************************)
\* C26: while the reset timer of a successful upload is pending isUploading is
\* true, no invocation was started after that upload and none is in flight: the
\* reset never runs under a running upload.
C26_ResetNotUnderUpload ==
    \A u \in resetTimer :
        /\ isUploading
        /\ u = Len(ups)
        /\ ups[u].pc = "completed"
        /\ InFlight = {}
        /\ ENABLED ResetTimerFires(u)

\* The reset timer of a second, successful upload is pending while the form is
\* on screen.
C26_Witness ==
    /\ resetTimer = {2}
    /\ ups[2].pc = "completed"
    /\ ups[1].pc = "failed"
    /\ open
    /\ selectedType # NoType
    /\ isUploading
    /\ uploadProgress = FinalProgress

(***************************************************************************)
(* C27                                                                     *)
(***************************************************************************)
\* C27: every finalize request belongs to an upload of which a chunk was
\* acknowledged, and its total_chunks is at least 1.
C27_FinalizeAfterAChunk ==
    \A k \in 1..Len(reqs) :
        reqs[k].kind = "finalize" =>
            /\ reqs[k].total_chunks >= 1
            /\ \E j \in 1..(k - 1) : /\ reqs[j].u = reqs[k].u
                                     /\ reqs[j].kind = "chunk"
                                     /\ reqs[j].result = "ok"

(***************************************************************************)
(* C28                                                                     *)
(***************************************************************************)
\* The message the claim expects for a non-success finalize response with body b.
C28_Expected(b) ==
    IF b.json /\ b.detail # <<>> THEN b.detail
    ELSE IF b.raw = <<>> THEN <<"Finalizing upload failed">>
    ELSE b.raw

\* The bodies the claim speaks of: JSON with a detail field, not JSON, empty.
C28_Bodies == {b \in FinalizeBodies : b.json => b.detail # <<>>}

C28_Step ==
    \A u \in 1..MaxUploads, b \in C28_Bodies :
        (Live(u) /\ FinalizeResponse(u, [kind |-> "notok", body |-> b])) =>
            notifications'[Len(notifications')] = Notification(u, "error", C28_Expected(b))

\* C28: a non-success finalize response shows the detail string of a JSON body,
\* the raw text of a body that is not JSON, and 'Finalizing upload failed' for an
\* empty body.
C28_FinalizeErrorMessage == [][C28_Step]_vars

(***************************************************************************)
(* C29                                                                     *)
(***************************************************************************)
\* A submission made without a userId: it only shows an error.
C29_Step ==
    (userId = "" /\ Len(ups') = Len(ups) + 1) =>
        LET u == Len(ups) + 1
        IN  /\ ups'[u].pc = "rejected"
            /\ ups'[u].uploadUuid = 0
            /\ notifications'[Len(notifications')]
                  = Notification(u, "error", <<"User not identified. Cannot start upload.">>)
            /\ \A k \in 1..Len(reqs') : reqs'[k].u # u
            /\ Len(reqs') <= Len(reqs)
            /\ \A k \in 1..Len(progressLog') : progressLog'[k].u # u
            /\ UNCHANGED <<isUploading, uploadProgress, selectedType, open, uuidCounter,
                           resetTimer>>

\* C29: onSubmit without a userId shows an error and returns: no request, and
\* isUploading, uploadProgress, selectedType and the dialog (hence the form, which
\* only resetModal clears) are unchanged.
C29_NoUserNoUpload == [][C29_Step]_vars

\* Two submissions without a userId were refused, the form still on screen.
C29_Witness ==
    /\ userId = ""
    /\ Len(ups) = 2
    /\ ups[2].pc = "rejected"
    /\ Len(NotificationsOf(2)) = 1
    /\ reqs = <<>>
    /\ open
    /\ selectedType = "video"
    /\ ~isUploading
    /\ uploadProgress = 0

(***************************************************************************)
(* C30                                                                     *)
(***************************************************************************)
\* The simulated progress is within 0..100.
C30_InRange == uploadProgress \in 0..100

\* After the error of the last submission has set the progress to 0, a step that
\* is not a submission leaves it 0.
C30_StaysZero ==
    (/\ ups # <<>>
     /\ ups[Len(ups)].pc = "errored"
     /\ uploadProgress = 0
     /\ Len(ups') = Len(ups)) => uploadProgress' = 0

\* C30: in the modal with simulated progress the progress stays within 0..100,
\* and after an upload error has reset it to 0 it stays 0 until the next
\* submission.
C30_SimulatedProgress == []C30_InRange /\ [][C30_StaysZero]_vars

====
